---------------------------- MODULE Spec2Model ----------------------------
(***************************************************************************)
(* A model of convert_dataset.py: the date augmenter for '|'-delimited     *)
(* files.  Text the program inspects character by character (timestamps,   *)
(* range inputs, file names, fields) is a sequence of one-character        *)
(* strings, so that the regular expression, int(), str.split, slicing and  *)
(* the f-string formats are computed as Python computes them.              *)
(***************************************************************************)
EXTENDS Integers, Sequences, FiniteSets, TLC

(***************************************************************************)
(* Text helpers                                                            *)
(***************************************************************************)
DigitChars == <<"0", "1", "2", "3", "4", "5", "6", "7", "8", "9">>

IsDigit(c) == \E k \in 1..10 : DigitChars[k] = c

DigitVal(c) == (CHOOSE k \in 1..10 : DigitChars[k] = c) - 1

\* s[n:] of Python, n counted from 0 and clipped to the length.
SliceFrom(s, n) == IF n >= Len(s) THEN << >> ELSE SubSeq(s, n + 1, Len(s))

RECURSIVE NatToStr(_)
NatToStr(n) ==
    IF n < 10 THEN <<DigitChars[n + 1]>>
    ELSE NatToStr(n \div 10) \o <<DigitChars[(n % 10) + 1]>>

\* f"{n}" for an int.
IntToStr(n) == IF n < 0 THEN <<"-">> \o NatToStr(-n) ELSE NatToStr(n)

\* f"{n:02d}" for an int n >= 0.
Pad2(n) == IF n < 10 THEN <<"0">> \o NatToStr(n) ELSE NatToStr(n)

RECURSIVE DigitsToNat(_)
DigitsToNat(s) ==
    IF s = << >> THEN 0
    ELSE 10 * DigitsToNat(SubSeq(s, 1, Len(s) - 1)) + DigitVal(s[Len(s)])

(***************************************************************************)
(* pattern, re.search and the match groups                                 *)
(***************************************************************************)
\* The pattern, position by position: "d" stands for \d, any other entry
\* for that literal character.
pattern ==
    <<"d", "d", "d", "d", "-", "d", "d", "-", "d", "d", "T",
      "d", "d", ":", "d", "d", ":", "d", "d", ".", "d", "d", "d",
      "+", "d", "d", "d", "d">>

MatchAt(s, i) ==
    /\ i >= 1
    /\ i + Len(pattern) - 1 <= Len(s)
    /\ \A k \in 1..Len(pattern) :
          IF pattern[k] = "d" THEN IsDigit(s[i + k - 1])
          ELSE s[i + k - 1] = pattern[k]

\* re.search(pattern, s): the start of the leftmost match, 0 for None.
re_search(s) ==
    IF \E i \in 1..Len(s) : MatchAt(s, i)
    THEN CHOOSE i \in 1..Len(s) :
            MatchAt(s, i) /\ \A j \in 1..(i - 1) : ~MatchAt(s, j)
    ELSE 0

\* match.group(1) and match.group(4) of a match of s starting at i.
Group1(s, i) == SubSeq(s, i, i + 3)

Group4(s, i) == SubSeq(s, i + 11, i + Len(pattern) - 1)

(***************************************************************************)
(* is_leap_year, calendar.monthrange, generate_random_date, generate_dates *)
(***************************************************************************)
is_leap_year_no_century(year) == year % 4 = 0

is_leap_year(year) ==
    (year % 4 = 0 /\ year % 100 # 0) \/ (year % 400 = 0)

\* calendar.mdays, the table behind calendar.monthrange(year, month)[1].
mdays == <<31, 28, 31, 30, 31, 30, 31, 31, 30, 31, 30, 31>>

\* max_day of generate_random_date: February by is_leap_year, the other
\* months by calendar.monthrange.
max_day(year, month) ==
    IF month = 2
    THEN (IF is_leap_year(year) THEN 29 ELSE 28)
    ELSE mdays[month]

\* random.randint(a, b) when the generator's next raw word is u:
\* a + randbelow(b - a + 1).  The caller has checked a <= b.
randint(a, b, u) == a + (u % (b - a + 1))

\* generate_random_date(year) when the generator's next two raw words are
\* um and ud: the month and day it draws.
DrawnMonth(um) == randint(1, 12, um)

DrawnDay(year, um, ud) == randint(1, max_day(year, DrawnMonth(um)), ud)

\* generate_random_date(year): f"{year}-{month:02d}-{day:02d}".
generate_random_date(year, um, ud) ==
    IntToStr(year) \o <<"-">> \o Pad2(DrawnMonth(um)) \o <<"-">>
        \o Pad2(DrawnDay(year, um, ud))

\* One derived timestamp of generate_dates:
\* f"{year}-{generate_random_date(year)[5:]}T{time_part}".
DerivedDate(year, um, ud, time_part) ==
    IntToStr(year) \o <<"-">> \o SliceFrom(generate_random_date(year, um, ud), 5)
        \o <<"T">> \o time_part

generate_dates_end_from_creation(s, i, random_years, random_valid_start_year, random_valid_end_year, u) ==
    LET creation_year == DigitsToNat(Group1(s, i))
        time_part == Group4(s, i)
    IN <<DerivedDate(creation_year + random_years, u[1], u[2], time_part),
         DerivedDate(creation_year + random_valid_start_year, u[3], u[4], time_part),
         DerivedDate(creation_year + random_valid_end_year, u[5], u[6], time_part)>>

generate_dates_time_of_day_only(s, i, random_years, random_valid_start_year, random_valid_end_year, u) ==
    LET creation_year == DigitsToNat(Group1(s, i))
        time_part == SubSeq(s, i + 11, i + 22)
        valid_start_year == creation_year + random_valid_start_year
    IN <<DerivedDate(creation_year + random_years, u[1], u[2], time_part),
         DerivedDate(valid_start_year, u[3], u[4], time_part),
         DerivedDate(valid_start_year + random_valid_end_year, u[5], u[6], time_part)>>

\* generate_dates(match, ...) for the match of s starting at i; u holds the
\* six raw words its three generate_random_date calls consume, in call order.
generate_dates(s, i, random_years, random_valid_start_year, random_valid_end_year, u) ==
    LET creation_year == DigitsToNat(Group1(s, i))
        time_part == Group4(s, i)
        deletion_year == creation_year + random_years
        valid_start_year == creation_year + random_valid_start_year
        valid_end_year == valid_start_year + random_valid_end_year
    IN <<DerivedDate(deletion_year, u[1], u[2], time_part),
         DerivedDate(valid_start_year, u[3], u[4], time_part),
         DerivedDate(valid_end_year, u[5], u[6], time_part)>>

(***************************************************************************)
(* Ranges: str.strip, str.split(","), int(), parse_range, get_range_input  *)
(***************************************************************************)
RECURSIVE LStrip(_)
LStrip(s) == IF s # << >> /\ s[1] = " " THEN LStrip(Tail(s)) ELSE s

RECURSIVE RStrip(_)
RStrip(s) ==
    IF s # << >> /\ s[Len(s)] = " " THEN RStrip(SubSeq(s, 1, Len(s) - 1)) ELSE s

\* str.strip().
Strip(s) == LStrip(RStrip(s))

\* str.split(","): the pieces between the commas, empty pieces kept.
RECURSIVE Split(_)
Split(s) ==
    IF \E k \in 1..Len(s) : s[k] = ","
    THEN LET k == CHOOSE j \in 1..Len(s) :
                     s[j] = "," /\ \A h \in 1..(j - 1) : s[h] # ","
         IN <<SubSeq(s, 1, k - 1)>> \o Split(SubSeq(s, k + 1, Len(s)))
    ELSE <<s>>

\* Whether int(s) returns: surrounding blanks, an optional sign, then digits.
IsIntText(s) ==
    LET t == Strip(s)
        body == IF t # << >> /\ t[1] \in {"+", "-"} THEN Tail(t) ELSE t
    IN body # << >> /\ \A k \in 1..Len(body) : IsDigit(body[k])

\* int(s), for s with IsIntText(s).
ParseInt(s) ==
    LET t == Strip(s)
    IN IF t[1] = "-" THEN 0 - DigitsToNat(Tail(t))
       ELSE IF t[1] = "+" THEN DigitsToNat(Tail(t))
       ELSE DigitsToNat(t)

\* tuple(map(int, text.split(","))), for text whose pieces are all ints.
IntTuple(text) == [k \in 1..Len(Split(text)) |-> ParseInt(Split(text)[k])]

AllInts(text) == \A k \in 1..Len(Split(text)) : IsIntText(Split(text)[k])

DEFAULT_YEARS_RANGE == <<5, 10>>

DEFAULT_VALID_START_RANGE == <<3, 5>>

DEFAULT_VALID_END_RANGE == <<2, 7>>

\* parse_range(value): whether it returns, and the pair it returns.  The
\* unpacking wants exactly two ints, and min <= max.
parse_range_ok(value) ==
    /\ AllInts(value)
    /\ Len(Split(value)) = 2
    /\ IntTuple(value)[1] <= IntTuple(value)[2]

parse_range(value) == IntTuple(value)

\* get_range_input(prompt, default) when the user types line.
get_range_input(line, default) ==
    LET user_input == Strip(line)
    IN IF user_input = << >> THEN default
       ELSE IF AllInts(user_input) THEN IntTuple(user_input)
       ELSE default

\* random.randint(*r) raises: TypeError unless r has two elements,
\* ValueError (empty range) when r[1] > r[2].
RandintRaises(r) == Len(r) # 2 \/ r[1] > r[2]

(***************************************************************************)
(* Bounds of the model                                                     *)
(***************************************************************************)
\* Data rows of a file that has the creationDate column.
MaxRows == 4

\* Length of the generator's cycle of raw words.
MaxTape == 2

\* Raw words the generator yields in a run over files; the runs of the
\* date functions alone draw from every value.
RawWords == {0, 1}

Tapes == [1..MaxTape -> RawWords]

(***************************************************************************)
(* Files, directories and paths                                            *)
(***************************************************************************)
InDir == <<"i", "n">>

OutDir == <<"o", "u", "t">>

NoDir == <<"n", "o", "d", "i", "r">>

FileA == <<"a", ".", "c", "s", "v">>

FileB == <<"b", ".", "c", "s", "v">>

FileC == <<"c", ".", "c", "s", "v">>

NotesTxt == <<"n", "o", "t", "e", "s", ".", "t", "x", "t">>

MissingCsv == <<"z", "z", ".", "c", "s", "v">>

CsvNames == {FileA, FileB, FileC}

Names == CsvNames \cup {NotesTxt}

Dirs == {InDir, OutDir}

\* str.endswith(".csv").
EndsWithCsv(name) ==
    Len(name) >= 4 /\ SubSeq(name, Len(name) - 3, Len(name)) = <<".", "c", "s", "v">>

\* A path: the directory d and the file name n in it; n is empty for the
\* directory itself, and both are empty for the empty string.
Path(d, n) == [d |-> d, n |-> n]

EmptyPath == Path(<< >>, << >>)

\* os.path.join(directory, name) and os.path.basename(path).
join(d, n) == Path(d, n)

basename(p) == IF p.n = << >> THEN p.d ELSE p.n

Absent == [kind |-> "absent", rows |-> << >>]

File(rows) == [kind |-> "file", rows |-> rows]

creationDate == <<"c", "r", "e", "a", "t", "i", "o", "n", "D", "a", "t", "e">>

HeaderGood == <<<<"i", "d">>, creationDate>>

HeaderNoCol == <<<<"i", "d">>, <<"c", "r", "e", "a", "t", "e", "d">>>>

NewColumns == <<<<"d", "e", "l", "e", "t", "i", "o", "n", "D", "a", "t", "e">>, <<"v", "a", "l", "i", "d", "S", "t", "a", "r", "t">>, <<"v", "a", "l", "i", "d", "E", "n", "d">>>>

Stamp(y, suffix) == y \o <<"-", "0", "5", "-", "1", "7", "T">> \o suffix

SuffixA == <<"1", "0", ":", "1", "5", ":", "3", "0", ".", "0", "0", "0", "+", "0", "0", "0", "0">>

SuffixB == <<"2", "3", ":", "5", "9", ":", "5", "9", ".", "9", "9", "9", "+", "0", "5", "3", "0">>

\* Data rows: a matching row, a row whose date does not match, a row too
\* short to hold the column, a matching row with a further field, a blank
\* line, a date with text around the timestamp.
RowCatalog ==
    << <<<<"U", "1">>, Stamp(<<"2", "0", "2", "0">>, SuffixA)>>,
       <<<<"U", "2">>, <<"n", "/", "a">>>>,
       <<<<"U", "3">>>>,
       <<<<"U", "4">>, Stamp(<<"1", "9", "9", "6">>, SuffixB), <<"x">>>>,
       << >>,
       <<<<"U", "6">>, <<"x">> \o Stamp(<<"2", "0", "1", "9">>, SuffixA) \o <<"x">>>> >>

DataRows(n) == [k \in 1..n |-> RowCatalog[((k - 1) % Len(RowCatalog)) + 1]]

GoodFile == File(<<HeaderGood>> \o DataRows(MaxRows))

NoColFile == File(<<HeaderNoCol>> \o DataRows(2))

EmptyFile == File(<< >>)

FileKinds == <<GoodFile, NoColFile, EmptyFile, Absent>>

\* The input directory's contents: the .csv names hold files of kinds chosen
\* up to renaming (the kinds in name order), notes.txt always a good file.
InputListings ==
    {[n \in Names |->
        IF n = FileA THEN FileKinds[k[1]]
        ELSE IF n = FileB THEN FileKinds[k[2]]
        ELSE IF n = FileC THEN FileKinds[k[3]]
        ELSE GoodFile] :
     k \in {q \in (1..4) \X (1..4) \X (1..4) : q[1] <= q[2] /\ q[2] <= q[3]}}

FixedListing ==
    [n \in Names |->
        IF n = FileA THEN GoodFile
        ELSE IF n = FileB THEN NoColFile
        ELSE IF n = FileC THEN EmptyFile
        ELSE GoodFile]

EmptyListing == [n \in Names |-> Absent]

(***************************************************************************)
(* The command line and the interactive inputs                             *)
(***************************************************************************)
\* One option of the command line: opt is the option string as typed, form
\* tells how its value is attached ("sep": the next argument, "eq":
\* --opt=value, "glued": -ovalue), val is the value.
Occ(opt, form, val) == [opt |-> opt, form |-> form, val |-> val]

DirSpellings ==
    {<<"-d", "sep">>, <<"--directory", "sep">>, <<"--directory", "eq">>,
     <<"--dir", "sep">>, <<"-d", "glued">>}

FileSpellings ==
    {<<"-f", "sep">>, <<"--file", "sep">>, <<"--file", "eq">>,
     <<"--fil", "sep">>, <<"-f", "glued">>}

\* The destination argparse stores an option under: the two short options,
\* the long options and their unambiguous prefixes.
Dest(opt) ==
    IF opt \in {"-d", "--directory", "--dir"} THEN "directory" ELSE "file"

\* args.directory / args.file: the value of the last such option, the empty
\* path (None) without one.
RECURSIVE ArgValue(_, _)
ArgValue(opts, dest) ==
    IF opts = << >> THEN EmptyPath
    ELSE IF Dest(opts[Len(opts)].opt) = dest THEN opts[Len(opts)].val
    ELSE ArgValue(SubSeq(opts, 1, Len(opts) - 1), dest)

\* any(arg in sys.argv for arg in spellings): some argument IS one of the
\* spellings, which an option with its value attached is not.
has_arg(opts, spellings) ==
    \E k \in 1..Len(opts) : opts[k].form = "sep" /\ opts[k].opt \in spellings

ExampleRangeArgs == <<<<"5", ",", "5">>, <<"3", ",", "3">>, <<"2", ",", "2">>>>

WideRangeArgs == <<<<"5", ",", "6">>, <<"3", ",", "3">>, <<"2", ",", "3">>>>

BadRangeArgs == <<<<"1", "0", ",", "5">>, <<"3", ",", "3">>, <<"2", ",", "2">>>>

RangeArgs == {<< >>, ExampleRangeArgs, WideRangeArgs, BadRangeArgs}

ChoiceLines == {<<"1">>, <<" ", "2">>, <<"3">>, << >>}

PathLines ==
    {EmptyPath, Path(InDir, << >>), Path(InDir, FileA), Path(NoDir, << >>)}

CustomLines == {<<"y">>, <<" ", "Y">>, <<"n">>, << >>}

Lower(s) == [k \in 1..Len(s) |-> IF s[k] = "Y" THEN "y" ELSE s[k]]

RangeLines == {<< >>, <<"5", ",", " ", "6">>, <<"6", ",", "5">>, <<"5">>, <<"5", ",", "x">>, <<"1", ",", "2", ",", "3">>}

(***************************************************************************)
(* State                                                                   *)
(***************************************************************************)
VARIABLES
    pc,                \* where the run is
    argv,              \* the command line
    fs,                \* directory -> name -> file
    fs0,               \* fs as the run found it
    dirs,              \* the directories that exist
    input_path, output_directory, is_directory,
    ranges,            \* <<random_years_range, valid_start, valid_end>>
    exit_status,       \* -1 while running
    csv_files,         \* process_directory: the files still to process
    cur,               \* process_csv_file: the file at hand
    diag,              \* what was printed: [msg, file]
    opened,            \* the paths process_csv_file was called with
    writes,            \* the paths opened for writing
    rng,               \* the random module's generator: its words, its place
    unit               \* the date functions called alone: the last call

vars ==
    <<pc, argv, fs, fs0, dirs, input_path, output_directory, is_directory,
      ranges, exit_status, csv_files, cur, diag, opened, writes, rng, unit>>

DefaultRanges ==
    <<DEFAULT_YEARS_RANGE, DEFAULT_VALID_START_RANGE, DEFAULT_VALID_END_RANGE>>

NoFile ==
    [input |-> EmptyPath, output |-> EmptyPath, status |-> "none", idx |-> 0,
     reader |-> << >>, consumed |-> << >>, dates |-> << >>]

NoUnit ==
    [op |-> "none", year |-> 0, text |-> << >>, creation |-> << >>,
     ranges |-> << >>, dates |-> << >>]

Invocations ==
    \* -d in, over every listing and output directory
    {[opts |-> <<Occ("-d", "sep", Path(InDir, << >>))>>, out |-> o, ranges |-> << >>,
      listing |-> l] :
        o \in Dirs, l \in InputListings}
    \cup
    \* -d in, over the range options
    {[opts |-> <<Occ("-d", "sep", Path(InDir, << >>))>>, out |-> OutDir, ranges |-> r,
      listing |-> FixedListing] :
        r \in RangeArgs}
    \cup
    \* -d with a path that is no directory, or empty
    {[opts |-> <<Occ("-d", "sep", p)>>, out |-> OutDir, ranges |-> << >>,
      listing |-> FixedListing] :
        p \in {Path(NoDir, << >>), Path(InDir, FileA), EmptyPath}}
    \cup
    \* -f
    {[opts |-> <<Occ("-f", "sep", p)>>, out |-> o, ranges |-> r,
      listing |-> FixedListing] :
        p \in {Path(InDir, n) : n \in Names \cup {MissingCsv, << >>}}
                \cup {Path(NoDir, FileA), EmptyPath},
        o \in Dirs, r \in {<< >>, ExampleRangeArgs}}
    \cup
    \* both options, in every spelling and either order
    UNION {{[opts |-> <<Occ(d[1], d[2], Path(InDir, << >>)),
                        Occ(f[1], f[2], Path(InDir, FileA))>>,
             out |-> OutDir, ranges |-> << >>, listing |-> FixedListing],
            [opts |-> <<Occ(f[1], f[2], Path(InDir, FileA)),
                        Occ(d[1], d[2], Path(InDir, << >>))>>,
             out |-> OutDir, ranges |-> << >>, listing |-> FixedListing]} :
           d \in DirSpellings, f \in FileSpellings}
    \cup
    \* neither option: the prompts
    {[opts |-> << >>, out |-> OutDir, ranges |-> << >>, listing |-> l] :
        l \in {FixedListing, EmptyListing}}

Init ==
    /\ \E v \in Invocations :
          /\ argv = [opts |-> v.opts, out |-> v.out, ranges |-> v.ranges]
          /\ fs = [d \in Dirs |-> IF d = InDir THEN v.listing ELSE EmptyListing]
    /\ fs0 = fs
    /\ pc = "argparse"
    /\ dirs = {InDir}
    /\ input_path = EmptyPath
    /\ output_directory = OutDir
    /\ is_directory = FALSE
    /\ ranges = DefaultRanges
    /\ exit_status = -1
    /\ csv_files = << >>
    /\ cur = NoFile
    /\ diag = {}
    /\ opened = {}
    /\ writes = {}
    /\ rng = [tape |-> << >>, pos |-> 0]
    /\ unit = NoUnit

(***************************************************************************)
(* File system calls                                                       *)
(***************************************************************************)
exists_always(p) == TRUE

\* os.path.exists(p).
exists(p) ==
    /\ p.d \in dirs
    /\ p.n # << >> => (p.d \in Dirs /\ p.n \in Names /\ fs[p.d][p.n].kind = "file")

\* open(p) for reading returns: p is there and is a file.
IsFile(p) ==
    /\ p.n # << >>
    /\ p.d \in dirs /\ p.d \in Dirs /\ p.n \in Names
    /\ fs[p.d][p.n].kind = "file"

\* os.listdir(d) returns: d is there and is a directory.
IsDir(p) == p.n = << >> /\ p.d \in dirs /\ p.d \in Dirs

listdir(d) == {n \in Names : fs[d][n].kind = "file"}

Perms(S) ==
    {q \in [1..Cardinality(S) -> S] : \A i, j \in 1..Cardinality(S) : q[i] = q[j] => i = j}

Prefixes(q) == {SubSeq(q, 1, k) : k \in 0..Len(q)}

\* header.index("creationDate"): the zero-based place of the first such
\* field, -1 for ValueError.
HeaderIndex(header) ==
    IF \E k \in 1..Len(header) : header[k] = creationDate
    THEN (CHOOSE k \in 1..Len(header) :
             header[k] = creationDate /\ \A j \in 1..(k - 1) : header[j] # creationDate) - 1
    ELSE -1

Say(msg, file) == [msg |-> msg, file |-> file]

\* The k-th raw word the generator yields next.
Word(t, pos, k) == t[((pos + k - 1) % Len(t)) + 1]

\* updated_row = row + [deletion_date, valid_start, valid_end].
updated_row(row, dates) == row \o <<dates[1], dates[2], dates[3]>>

SkipsRow_off_by_one(row, idx) == Len(row) <= idx + 1

\* Whether the row loop passes over a row: len(row) <= creation_date_index.
SkipsRow(row, idx) == Len(row) <= idx

(***************************************************************************)
(* __main__ and main                                                       *)
(***************************************************************************)
Exit(status) == /\ pc' = "done"
                /\ exit_status' = status

\* __main__: argparse parses the command line and calls main.
ParseArgs ==
    /\ pc = "argparse"
    /\ IF argv.ranges # << >> /\ \E k \in 1..3 : ~parse_range_ok(argv.ranges[k])
       THEN /\ Exit(2)
            /\ UNCHANGED <<input_path, output_directory, is_directory, ranges>>
       ELSE /\ pc' = "main"
            /\ input_path' =
                   IF ArgValue(argv.opts, "directory") # EmptyPath
                   THEN ArgValue(argv.opts, "directory")
                   ELSE ArgValue(argv.opts, "file")
            /\ output_directory' = argv.out
            /\ is_directory' = (ArgValue(argv.opts, "directory") # EmptyPath)
            /\ ranges' = IF argv.ranges = << >> THEN DefaultRanges
                         ELSE [k \in 1..3 |-> parse_range(argv.ranges[k])]
            /\ UNCHANGED exit_status
    /\ UNCHANGED <<argv, fs, fs0, dirs, csv_files, cur, diag, opened, writes, rng, unit>>

\* main, to the first prompt or the dispatch.
MainStart ==
    /\ pc = "main"
    /\ dirs' = dirs \cup {output_directory}
    /\ IF has_arg(argv.opts, {"-d", "--directory"}) /\ has_arg(argv.opts, {"-f", "--file"})
       THEN /\ Exit(1)
            /\ diag' = diag \cup {Say("BothOptions", EmptyPath)}
       ELSE /\ pc' = IF input_path = EmptyPath THEN "choice" ELSE "dispatch"
            /\ UNCHANGED <<exit_status, diag>>
    /\ UNCHANGED <<argv, fs, fs0, input_path, output_directory, is_directory, ranges,
                   csv_files, cur, opened, writes, rng, unit>>

\* The prompt for the mode.
PromptChoice ==
    /\ pc = "choice"
    /\ \E line \in ChoiceLines :
          IF Strip(line) \in {<<"1">>, <<"2">>}
          THEN /\ pc' = "path"
               /\ is_directory' = (Strip(line) = <<"1">>)
               /\ UNCHANGED <<exit_status, diag>>
          ELSE /\ Exit(1)
               /\ diag' = diag \cup {Say("InvalidChoice", EmptyPath)}
               /\ UNCHANGED is_directory
    /\ UNCHANGED <<argv, fs, fs0, dirs, input_path, output_directory, ranges,
                   csv_files, cur, opened, writes, rng, unit>>

\* The prompt for the path.
PromptPath ==
    /\ pc = "path"
    /\ \E p \in PathLines :
          /\ input_path' = p
          /\ IF p = EmptyPath
             THEN /\ Exit(1)
                  /\ diag' = diag \cup {Say("NoPath", EmptyPath)}
             ELSE /\ pc' = "custom"
                  /\ UNCHANGED <<exit_status, diag>>
    /\ UNCHANGED <<argv, fs, fs0, dirs, output_directory, is_directory, ranges,
                   csv_files, cur, opened, writes, rng, unit>>

\* The prompt for custom ranges and, on "y", the three range prompts.
PromptRanges ==
    /\ pc = "custom"
    /\ \E answer \in CustomLines :
          IF Lower(Strip(answer)) = <<"y">>
          THEN \E l1, l2, l3 \in RangeLines :
                  ranges' = <<get_range_input(l1, ranges[1]),
                              get_range_input(l2, ranges[2]),
                              get_range_input(l3, ranges[3])>>
          ELSE UNCHANGED ranges
    /\ pc' = "dispatch"
    /\ UNCHANGED <<argv, fs, fs0, dirs, input_path, output_directory, is_directory,
                   exit_status, csv_files, cur, diag, opened, writes, rng, unit>>

\* main's last statement: the directory, or the file if it exists.
Dispatch ==
    /\ pc = "dispatch"
    /\ IF is_directory
       THEN /\ pc' = "listdir"
            /\ UNCHANGED <<exit_status, diag, cur>>
       ELSE IF exists(input_path)
       THEN /\ pc' = "open"
            /\ cur' = [NoFile EXCEPT !.input = input_path]
            /\ UNCHANGED <<exit_status, diag>>
       ELSE /\ Exit(1)
            /\ diag' = diag \cup {Say("FileNotFound", input_path)}
            /\ UNCHANGED cur
    /\ UNCHANGED <<argv, fs, fs0, dirs, input_path, output_directory, is_directory,
                   ranges, csv_files, opened, writes, rng, unit>>

(***************************************************************************)
(* process_directory                                                       *)
(***************************************************************************)
\* os.makedirs, os.listdir and the filter on ".csv".  os.listdir raises for a
\* path that is no directory; nothing catches it and the run ends with a
\* traceback, status 1.  The order of the listing is arbitrary.
ListDir ==
    /\ pc = "listdir"
    /\ dirs' = dirs \cup {output_directory}
    /\ IF ~IsDir(input_path)
       THEN /\ Exit(1)
            /\ diag' = diag \cup {Say("Traceback", input_path)}
            /\ UNCHANGED csv_files
       ELSE IF {n \in listdir(input_path.d) : EndsWithCsv(n)} = {}
       THEN /\ Exit(0)
            /\ diag' = diag \cup {Say("NoCsvFiles", input_path)}
            /\ UNCHANGED csv_files
       ELSE /\ pc' = "loop"
            /\ csv_files' \in Perms({n \in listdir(input_path.d) : EndsWithCsv(n)})
            /\ UNCHANGED <<exit_status, diag>>
    /\ UNCHANGED <<argv, fs, fs0, input_path, output_directory, is_directory, ranges,
                   cur, opened, writes, rng, unit>>

\* for file in csv_files: the next file, or the end of the run.
NextFile ==
    /\ pc = "loop"
    /\ IF csv_files = << >>
       THEN /\ Exit(0)
            /\ UNCHANGED <<csv_files, cur>>
       ELSE /\ pc' = "open"
            /\ cur' = [NoFile EXCEPT !.input = join(input_path.d, Head(csv_files))]
            /\ csv_files' = Tail(csv_files)
            /\ UNCHANGED exit_status
    /\ UNCHANGED <<argv, fs, fs0, dirs, input_path, output_directory, is_directory,
                   ranges, diag, opened, writes, rng, unit>>

(***************************************************************************)
(* process_csv_file                                                        *)
(***************************************************************************)
ReturnAborting == Exit(1)

\* process_csv_file returns: to the loop of process_directory, or to the end
\* of main.
Return == IF is_directory THEN pc' = "loop" /\ UNCHANGED exit_status ELSE Exit(0)

output_file_in_place(input_file) == input_file

\* output_file = os.path.join(output_directory, os.path.basename(input_file)).
output_file(input_file) == join(output_directory, basename(input_file))

\* From the call to the header written: open the input, read the header,
\* find the column, open the output and write the new header.
OpenFile ==
    /\ pc = "open"
    /\ opened' = opened \cup {cur.input}
    /\ LET out == output_file(cur.input)
           rows == fs[cur.input.d][cur.input.n].rows
       IN IF ~IsFile(cur.input) \/ rows = << >>
          THEN \* open() raises, or next(reader) raises StopIteration
               /\ diag' = diag \cup {Say("Error", cur.input)}
               /\ cur' = [cur EXCEPT !.output = out, !.status = "error"]
               /\ Return
               /\ UNCHANGED <<fs, writes>>
          ELSE IF HeaderIndex(rows[1]) < 0
          THEN /\ diag' = diag \cup {Say("Skipping", cur.input)}
               /\ cur' = [cur EXCEPT !.output = out, !.status = "skipped"]
               /\ Return
               /\ UNCHANGED <<fs, writes>>
          ELSE /\ fs' = [fs EXCEPT ![out.d][out.n] = File(<<rows[1] \o NewColumns>>)]
               /\ writes' = writes \cup {out}
               \* opening the input's own path for writing truncates it
               \* under the reader, which keeps what it had buffered
               /\ \E rest \in (IF out = cur.input THEN Prefixes(Tail(rows))
                               ELSE {Tail(rows)}) :
                     cur' = [cur EXCEPT !.output = out, !.status = "reading",
                                        !.idx = HeaderIndex(rows[1]),
                                        !.reader = rest]
               /\ pc' = "rows"
               /\ UNCHANGED <<exit_status, diag>>
    /\ UNCHANGED <<argv, fs0, dirs, input_path, output_directory, is_directory, ranges,
                   csv_files, rng, unit>>

WriteRow(row) ==
    fs' = [fs EXCEPT ![cur.output.d][cur.output.n].rows = Append(@, row)]

\* One turn of "for row in reader".
RowStep ==
    /\ pc = "rows"
    /\ cur.reader # << >>
    /\ LET row == Head(cur.reader)
           read == [cur EXCEPT !.reader = Tail(@), !.consumed = Append(@, row)]
       IN IF SkipsRow(row, cur.idx)
          THEN /\ cur' = read
               /\ UNCHANGED <<fs, rng, diag, pc, exit_status>>
          ELSE LET creation_date == row[cur.idx + 1]
                   match == re_search(creation_date)
               IN IF match = 0
                  THEN /\ cur' = read
                       /\ WriteRow(row)
                       /\ UNCHANGED <<rng, diag, pc, exit_status>>
                  ELSE IF \E k \in 1..3 : RandintRaises(ranges[k])
                  THEN \* random.randint raises; the handler reports it
                       /\ cur' = [read EXCEPT !.status = "error"]
                       /\ diag' = diag \cup {Say("Error", cur.input)}
                       /\ Return
                       /\ UNCHANGED <<fs, rng>>
                  ELSE \E t \in (IF rng.tape = << >> THEN Tapes ELSE {rng.tape}) :
                          LET w(k) == Word(t, rng.pos, k)
                              dates == generate_dates(creation_date, match,
                                          randint(ranges[1][1], ranges[1][2], w(1)),
                                          randint(ranges[2][1], ranges[2][2], w(2)),
                                          randint(ranges[3][1], ranges[3][2], w(3)),
                                          <<w(4), w(5), w(6), w(7), w(8), w(9)>>)
                          IN /\ rng' = [tape |-> t, pos |-> (rng.pos + 9) % Len(t)]
                             /\ cur' = [read EXCEPT !.dates = dates]
                             /\ WriteRow(updated_row(row, dates))
                             /\ UNCHANGED <<diag, pc, exit_status>>
    /\ UNCHANGED <<argv, fs0, dirs, input_path, output_directory, is_directory, ranges,
                   csv_files, opened, writes, unit>>

\* The reader is exhausted: the files close and "Processed" is printed.
EndFile ==
    /\ pc = "rows"
    /\ cur.reader = << >>
    /\ cur' = [cur EXCEPT !.status = "processed"]
    /\ diag' = diag \cup {Say("Processed", cur.input)}
    /\ Return
    /\ UNCHANGED <<argv, fs, fs0, dirs, input_path, output_directory, is_directory,
                   ranges, csv_files, opened, writes, rng, unit>>

Next ==
    \/ ParseArgs
    \/ MainStart
    \/ PromptChoice
    \/ PromptPath
    \/ PromptRanges
    \/ Dispatch
    \/ ListDir
    \/ NextFile
    \/ OpenFile
    \/ RowStep
    \/ EndFile

Spec == Init /\ [][Next]_vars

(***************************************************************************)
(* The date functions called alone                                         *)
(***************************************************************************)
UnitYears == {8, 1900, 2000, 2023, 2024, 2100, 10004}

UnitCreations ==
    {Stamp(<<"2", "0", "2", "0">>, SuffixA), Stamp(<<"1", "9", "9", "6">>, SuffixB), Stamp(<<"0", "0", "0", "3">>, SuffixA),
     Stamp(<<"9", "9", "9", "9">>, SuffixB), <<"x">> \o Stamp(<<"2", "0", "1", "9">>, SuffixA) \o <<"x">>}

UnitRanges == {DefaultRanges, << <<5, 5>>, <<3, 3>>, <<2, 2>> >>}

InitDate ==
    /\ argv = [opts |-> << >>, out |-> OutDir, ranges |-> << >>]
    /\ fs = [d \in Dirs |-> EmptyListing]
    /\ fs0 = fs
    /\ pc = "unit"
    /\ dirs = {InDir}
    /\ input_path = EmptyPath
    /\ output_directory = OutDir
    /\ is_directory = FALSE
    /\ ranges = DefaultRanges
    /\ exit_status = -1
    /\ csv_files = << >>
    /\ cur = NoFile
    /\ diag = {}
    /\ opened = {}
    /\ writes = {}
    /\ rng = [tape |-> << >>, pos |-> 0]
    /\ unit = NoUnit

\* One call of generate_random_date(year), its two draws taking every value.
CallGenerateRandomDate ==
    /\ pc = "unit"
    /\ \E year \in UnitYears, um \in 0..11, ud \in 0..30 :
          unit' = [NoUnit EXCEPT !.op = "generate_random_date", !.year = year,
                                 !.text = generate_random_date(year, um, ud)]
    /\ pc' = "called"
    /\ UNCHANGED <<argv, fs, fs0, dirs, input_path, output_directory, is_directory,
                   ranges, exit_status, csv_files, cur, diag, opened, writes, rng>>

\* One call of generate_dates(match, ...) for a matching creation date, the
\* offsets taking every value of their ranges.
CallGenerateDates ==
    /\ pc = "unit"
    /\ \E c \in UnitCreations, r \in UnitRanges :
          \E ry \in r[1][1]..r[1][2], rvs \in r[2][1]..r[2][2], rve \in r[3][1]..r[3][2],
             u \in [1..6 -> RawWords] :
                unit' = [NoUnit EXCEPT !.op = "generate_dates", !.creation = c,
                            !.ranges = r,
                            !.dates = generate_dates(c, re_search(c), ry, rvs, rve, u)]
    /\ pc' = "called"
    /\ UNCHANGED <<argv, fs, fs0, dirs, input_path, output_directory, is_directory,
                   ranges, exit_status, csv_files, cur, diag, opened, writes, rng>>

NextDate == CallGenerateRandomDate \/ CallGenerateDates

SpecDate == InitDate /\ [][NextDate]_vars

(***************************************************************************)
(* Reading the state: the file at hand and its output                      *)
(***************************************************************************)
\* The output of the file at hand has been opened and its header written.
HeaderWritten == cur.status # "none" /\ cur.output \in writes

OutFile == fs[cur.output.d][cur.output.n]

\* The data rows written so far for the file at hand.
OutRows == Tail(OutFile.rows)

HoldsColumn(row) == Len(row) >= cur.idx + 1

\* The rows read so far that hold the creation-date column, in input order.
KeptRows == SelectSeq(cur.consumed, HoldsColumn)

CreationField(row) == row[cur.idx + 1]

Matches(row) == re_search(CreationField(row)) # 0

\* The text before the first "-" of a timestamp, as a number: its year.
YearOf(stamp) ==
    LET k == CHOOSE j \in 1..Len(stamp) :
                 stamp[j] = "-" /\ \A h \in 1..(j - 1) : stamp[h] # "-"
    IN DigitsToNat(SubSeq(stamp, 1, k - 1))

\* Everything after the first "T" of a timestamp.
AfterT(stamp) ==
    LET k == CHOOSE j \in 1..Len(stamp) :
                 stamp[j] = "T" /\ \A h \in 1..(j - 1) : stamp[h] # "T"
    IN SubSeq(stamp, k + 1, Len(stamp))

\* The year and the suffix the pattern captures from a creation date.
CreationYear(c) == DigitsToNat(Group1(c, re_search(c)))

CapturedSuffix(c) == Group4(c, re_search(c))

IsRange(r) == Len(r) = 2 /\ r[1] <= r[2]

InRange(x, r) == r[1] <= x /\ x <= r[2]

ExampleRanges == << <<5, 5>>, <<3, 3>>, <<2, 2>> >>

\* The three year differences of an augmented row lie in the three ranges.
YearsInRanges(creation, dates, r) ==
    /\ InRange(YearOf(dates[1]) - CreationYear(creation), r[1])
    /\ InRange(YearOf(dates[2]) - CreationYear(creation), r[2])
    /\ InRange(YearOf(dates[3]) - YearOf(dates[2]), r[3])

LastThree(row) == SubSeq(row, Len(row) - 2, Len(row))

(***************************************************************************)
(* C1                                                                      *)
(***************************************************************************)
\* C1: for every row process_csv_file has augmented, the year of
\* deletionDate minus the creation year lies in the deletion range, the year
\* of validStart minus the creation year in the valid-start range, and the
\* year of validEnd minus the year of validStart in the valid-end range; with
\* the ranges (5,5), (3,3), (2,2) a creation year of 2020 gives 2025, 2023
\* and 2025.
C1_YearOffsetsInRanges ==
    HeaderWritten =>
        \A k \in 1..Len(OutRows) :
            (k <= Len(KeptRows) /\ Matches(KeptRows[k]) /\ Len(OutRows[k]) >= 3) =>
                LET c == CreationField(KeptRows[k])
                    d == LastThree(OutRows[k])
                IN /\ \A j \in 1..3 : IsRange(ranges[j])
                   /\ YearsInRanges(c, d, ranges)
                   /\ (ranges = ExampleRanges /\ CreationYear(c) = 2020) =>
                         /\ YearOf(d[1]) = 2025
                         /\ YearOf(d[2]) = 2023
                         /\ YearOf(d[3]) = 2025

\* Two rows of one file augmented with different deletion offsets.
C1_Witness ==
    /\ HeaderWritten
    /\ cur.output # cur.input
    /\ \E j, k \in 1..Len(OutRows) :
          /\ j < k /\ k <= Len(KeptRows)
          /\ Matches(KeptRows[j]) /\ Matches(KeptRows[k])
          /\ YearOf(LastThree(OutRows[j])[1]) - CreationYear(CreationField(KeptRows[j]))
                # YearOf(LastThree(OutRows[k])[1]) - CreationYear(CreationField(KeptRows[k]))

(***************************************************************************)
(* C2                                                                      *)
(***************************************************************************)
\* C2: every output row of a row whose creation date matches the pattern is
\* the input row followed by exactly three fields, which are deletionDate,
\* validStart and validEnd in that order, and what follows the "T" in each of
\* the three is the suffix captured from the row's creation date.
C2_ThreeFieldsWithSuffix ==
    HeaderWritten =>
        /\ \A k \in 1..Len(OutRows) :
              (k <= Len(KeptRows) /\ Matches(KeptRows[k])) =>
                  /\ Len(OutRows[k]) = Len(KeptRows[k]) + 3
                  /\ SubSeq(OutRows[k], 1, Len(KeptRows[k])) = KeptRows[k]
                  /\ \A j \in 1..3 :
                        AfterT(OutRows[k][Len(KeptRows[k]) + j])
                            = CapturedSuffix(CreationField(KeptRows[k]))
        /\ (/\ cur.status # "error"
            /\ cur.consumed # << >>
            /\ HoldsColumn(cur.consumed[Len(cur.consumed)])
            /\ Matches(cur.consumed[Len(cur.consumed)])) =>
               /\ Len(OutRows) = Len(KeptRows)
               /\ OutRows[Len(OutRows)]
                     = cur.consumed[Len(cur.consumed)]
                          \o <<cur.dates[1], cur.dates[2], cur.dates[3]>>

\* A matching row that holds a further field after the date, augmented; its
\* suffix is the second one.
C2_Witness ==
    /\ HeaderWritten
    /\ cur.status = "reading"
    /\ cur.consumed # << >>
    /\ LET row == cur.consumed[Len(cur.consumed)]
       IN /\ Len(row) = 3
          /\ Matches(row)
          /\ CapturedSuffix(CreationField(row)) = SuffixB
          /\ Len(OutRows[Len(OutRows)]) = 6

(***************************************************************************)
(* C3                                                                      *)
(***************************************************************************)
\* The Gregorian calendar, by cases.
GregorianLeap(y) ==
    IF y % 400 = 0 THEN TRUE ELSE IF y % 100 = 0 THEN FALSE ELSE y % 4 = 0

GregorianDays(y, m) ==
    IF m \in {4, 6, 9, 11} THEN 30
    ELSE IF m = 2 THEN (IF GregorianLeap(y) THEN 29 ELSE 28)
    ELSE 31

\* The month and the day of the text generate_random_date returned: its last
\* five characters are MM-DD.
ReturnedMonth == DigitsToNat(SubSeq(unit.text, Len(unit.text) - 4, Len(unit.text) - 3))

ReturnedDay == DigitsToNat(SubSeq(unit.text, Len(unit.text) - 1, Len(unit.text)))

\* C3: whatever generate_random_date(y) returns is the year y, a month in
\* 1..12 and a day in 1..the number of days of that month in year y, February
\* having 29 days exactly in the Gregorian leap years (so not in 1900 or 2023,
\* but in 2000 and 2024).
C3_ValidCalendarDate ==
    unit.op = "generate_random_date" =>
        /\ unit.text = IntToStr(unit.year) \o <<"-">> \o Pad2(ReturnedMonth)
                           \o <<"-">> \o Pad2(ReturnedDay)
        /\ ReturnedMonth \in 1..12
        /\ ReturnedDay \in 1..GregorianDays(unit.year, ReturnedMonth)
        /\ (ReturnedMonth = 2 /\ unit.year \in {1900, 2023}) => ReturnedDay <= 28

\* The 29th of February of the leap year 2000 is returned.
C3_Witness ==
    /\ unit.op = "generate_random_date"
    /\ unit.year = 2000
    /\ ReturnedMonth = 2
    /\ ReturnedDay = 29

(***************************************************************************)
(* C10                                                                     *)
(***************************************************************************)
\* re.fullmatch(pattern, s).
FullMatch(s) == Len(s) = Len(pattern) /\ MatchAt(s, 1)

\* C10: every timestamp generate_dates derives from a matching creation
\* date matches the pattern as a whole string.
C10_DerivedMatchPattern ==
    unit.op = "generate_dates" => \A j \in 1..3 : FullMatch(unit.dates[j])

(***************************************************************************)
(* C4                                                                      *)
(***************************************************************************)
\* The file at hand as the run found it, and its data rows.
InFile0 == fs0[cur.input.d][cur.input.n]

DataRows0 == Tail(InFile0.rows)

\* The output row of an input row: the row itself if its date does not
\* match, the row and three further fields if it does.
IsOutputOf(out, row) ==
    IF Matches(row)
    THEN Len(out) = Len(row) + 3 /\ SubSeq(out, 1, Len(row)) = row
    ELSE out = row

\* C4 as claimed, for a file written beside its input: once a file whose
\* header holds creationDate is processed, the output is the header and the
\* three new names, then exactly one output row per input data row, in input
\* order, a non-matching row copied unchanged.
C4_OneOutputRowPerInputRow ==
    (cur.status = "processed" /\ cur.output # cur.input) =>
        /\ OutFile.rows[1] = InFile0.rows[1] \o NewColumns
        /\ Len(OutRows) = Len(DataRows0)
        /\ \A k \in 1..Len(OutRows) :
              HoldsColumn(DataRows0[k]) /\ IsOutputOf(OutRows[k], DataRows0[k])

\* C4 as amended: the output of a file written beside its input is the
\* header and the three new names, then, in input order, one output row per
\* row read that holds the creation-date column (the row that raised, if one
\* did, excepted); rows too short to hold the column are dropped, a
\* non-matching row is copied unchanged, and a processed file has had every
\* data row read.
C4_OneOutputRowPerRowHoldingColumn ==
    (HeaderWritten /\ cur.output # cur.input) =>
        /\ OutFile.rows[1] = InFile0.rows[1] \o NewColumns
        /\ cur.consumed \o cur.reader = DataRows0
        /\ Len(OutRows) = Len(KeptRows) - (IF cur.status = "error" THEN 1 ELSE 0)
        /\ \A k \in 1..Len(OutRows) : IsOutputOf(OutRows[k], KeptRows[k])
        /\ cur.status = "processed" => cur.consumed = DataRows0

\* A processed file with a matching row, a non-matching row and a dropped
\* short row.
C4_Witness ==
    /\ cur.status = "processed"
    /\ cur.output # cur.input
    /\ Len(KeptRows) < Len(DataRows0)
    /\ \E j, k \in 1..Len(KeptRows) : Matches(KeptRows[j]) /\ ~Matches(KeptRows[k])
    /\ Len(OutRows) = Len(KeptRows)

(***************************************************************************)
(* C5                                                                      *)
(***************************************************************************)
\* The .csv files of the input directory as the run found it.
CsvFiles0 == {n \in Names : EndsWithCsv(n) /\ fs0[input_path.d][n].kind = "file"}

HasColumn0(n) ==
    /\ fs0[input_path.d][n].rows # << >>
    /\ \E k \in 1..Len(fs0[input_path.d][n].rows[1]) :
          fs0[input_path.d][n].rows[1][k] = creationDate

\* The run is over and was a directory run that began to process files.
DirectoryRunOver == pc = "done" /\ is_directory /\ opened # {}

\* C5: a directory run that began to process files ends with status 0 after
\* every .csv file of the directory, whatever their order: a file without the
\* creationDate column is reported as skipped and nothing is written for it,
\* a file whose processing raised (no header line, or random.randint refusing
\* a range) is reported with its name, and every other file is reported as
\* processed and has its output, under the new header, in the output
\* directory.
C5_FileFailuresDoNotStopRun ==
    DirectoryRunOver =>
        /\ exit_status = 0
        /\ csv_files = << >>
        /\ opened = {Path(input_path.d, n) : n \in CsvFiles0}
        /\ \A n \in CsvFiles0 :
              LET p == Path(input_path.d, n)
                  out == Path(output_directory, n)
              IN IF fs0[p.d][n].rows = << >>
                 THEN Say("Error", p) \in diag /\ out \notin writes
                 ELSE IF ~HasColumn0(n)
                 THEN /\ Say("Skipping", p) \in diag
                      /\ out \notin writes
                      /\ fs[out.d][n] = fs0[out.d][n]
                 ELSE IF Say("Error", p) \in diag
                 THEN \E k \in 1..3 : ~IsRange(ranges[k])
                 ELSE /\ Say("Processed", p) \in diag
                      /\ out \in writes
                      /\ fs[out.d][n].kind = "file"
                      /\ fs[out.d][n].rows[1] = fs0[p.d][n].rows[1] \o NewColumns

\* A directory run over a file that is skipped, a file that raises and a
\* file that is processed, the processed one coming last.
C5_Witness ==
    /\ DirectoryRunOver
    /\ \E a, b, c \in CsvFiles0 :
          /\ Say("Skipping", Path(input_path.d, a)) \in diag
          /\ Say("Error", Path(input_path.d, b)) \in diag
          /\ Say("Processed", Path(input_path.d, c)) \in diag
          /\ cur.input = Path(input_path.d, c)
          /\ Len(fs[output_directory][c].rows) > 1

(***************************************************************************)
(* C9                                                                      *)
(***************************************************************************)
\* C9: every path opened for writing is the base name of a file
\* process_csv_file was called with, inside the output directory; no other
\* file changes, so a source file changes only if its directory is the output
\* directory; and nothing is written for a file skipped for lacking the
\* column.
C9_WritesOnlyOutputPath ==
    /\ \A w \in writes :
          \E p \in opened : p.n # << >> /\ w = Path(output_directory, p.n)
    /\ \A d \in Dirs, n \in Names : fs[d][n] # fs0[d][n] => Path(d, n) \in writes
    /\ \A p \in opened :
          (p.n \in Names /\ p.d \in Dirs /\ fs[p.d][p.n] # fs0[p.d][p.n])
              => p.d = output_directory
    /\ \A p \in opened :
          Say("Skipping", p) \in diag => Path(output_directory, p.n) \notin writes
    /\ (~is_directory /\ cur.status = "skipped") => writes = {} /\ fs = fs0

\* A run into another directory that has processed one file and skipped
\* another, every source file as it was.
C9_Witness ==
    /\ pc = "done"
    /\ output_directory # input_path.d
    /\ \E p, q \in opened :
          /\ Say("Skipping", p) \in diag
          /\ Say("Processed", q) \in diag
          /\ Path(output_directory, q.n) \in writes
    /\ fs[input_path.d] = fs0[input_path.d]

(***************************************************************************)
(* C6                                                                      *)
(***************************************************************************)
\* The command line gives a directory path and a file path.
BothSupplied ==
    /\ \E k \in 1..Len(argv.opts) : Dest(argv.opts[k].opt) = "directory"
    /\ \E k \in 1..Len(argv.opts) : Dest(argv.opts[k].opt) = "file"

\* C6: a run given both a directory path and a file path, however the two
\* options are spelled, processes no file and writes none, and ends with
\* status 1.
C6_BothOptionsExitOne ==
    BothSupplied =>
        /\ opened = {}
        /\ writes = {}
        /\ pc = "done" => exit_status = 1

(***************************************************************************)
(* C7                                                                      *)
(***************************************************************************)
\* The run is over and argparse had accepted the command line.
RunOver == pc = "done" /\ exit_status # 2 /\ ~BothSupplied

\* The directories and files as the run found them; makedirs adds only the
\* output directory.
IsDir0(p) == p.n = << >> /\ p.d \in Dirs /\ (p.d = InDir \/ p.d = output_directory)

IsFile0(p) == p.n \in Names /\ p.d \in Dirs /\ fs0[p.d][p.n].kind = "file"

\* C7 as claimed: a run whose input path is empty, does not exist, is not a
\* file in single-file mode or not a directory in directory mode ends with
\* status 1 and processes no file.
C7_InvalidPathExitsOne ==
    (RunOver /\ IF is_directory THEN ~IsDir0(input_path) ELSE ~IsFile0(input_path)) =>
        exit_status = 1 /\ opened = {}

\* C7 as amended: a run whose input path is empty, or does not exist in
\* single-file mode, or is not a directory in directory mode, ends with
\* status 1 and processes no file; in single-file mode a path that exists but
\* is a directory is handed to process_csv_file, reported as a per-file
\* error, written nowhere, and the run ends with status 0.
C7_MissingPathExitsOne ==
    RunOver =>
        /\ (\/ input_path = EmptyPath
            \/ is_directory /\ ~IsDir0(input_path)
            \/ ~is_directory /\ ~IsFile0(input_path) /\ ~IsDir0(input_path))
              => exit_status = 1 /\ opened = {} /\ writes = {}
        /\ (~is_directory /\ IsDir0(input_path))
              => /\ exit_status = 0
                 /\ opened = {input_path}
                 /\ Say("Error", input_path) \in diag
                 /\ writes = {}
        /\ exit_status = 0 =>
              IF is_directory THEN IsDir0(input_path)
              ELSE IsFile0(input_path) \/ IsDir0(input_path)

\* A single-file run on a path that does not exist has ended with status 1.
C7_Witness ==
    /\ RunOver
    /\ ~is_directory
    /\ input_path # EmptyPath
    /\ ~IsFile0(input_path) /\ ~IsDir0(input_path)
    /\ Say("FileNotFound", input_path) \in diag
    /\ exit_status = 1

(***************************************************************************)
(* C8                                                                      *)
(***************************************************************************)
\* C8: the ranges handed to processing after the interactive prompts are
\* pairs (min, max) with min <= max, whatever was typed.
C8_InteractiveRangesUsable ==
    (argv.opts = << >> /\ pc \in {"dispatch", "listdir", "loop", "open", "rows", "done"})
        => \A k \in 1..3 : IsRange(ranges[k])

=============================================================================
